---- MODULE Spec2Model ----
(***************************************************************************)
(* A model of aiosmtplib's ESMTP client (src/aiosmtplib/esmtp.py): the     *)
(* negotiated session state, the command methods with their status-code    *)
(* classification, greeting auto-negotiation, STARTTLS and the EHLO        *)
(* response parser.                                                        *)
(*                                                                         *)
(* Strings are TLA+ strings; a character is a string of length one.        *)
(***************************************************************************)
EXTENDS Integers, Sequences, FiniteSets, TLC

\* ------------------------------------------------------------------------
\* Python string primitives used by parse_esmtp_extensions
\* ------------------------------------------------------------------------

\* s[i-1] in Python: the i-th character of s, as a string of length one.
Ch(s, i) == SubSeq(s, i, i)

UpperCase == "ABCDEFGHIJKLMNOPQRSTUVWXYZ"

LowerCase == "abcdefghijklmnopqrstuvwxyz"

Digits == "0123456789"

\* The characters str.strip() and str.split() treat as whitespace.
Whitespace == {" ", "\t", "\n", "\r", "\f"}

CharsOf(s) == {Ch(s, i) : i \in 1..Len(s)}

UpperChars == CharsOf(UpperCase)

AlnumChars == CharsOf(UpperCase) \cup CharsOf(LowerCase) \cup CharsOf(Digits)

\* The character class [A-Za-z0-9] of EXTENSIONS_REGEX.
IsAlnum(c) == c \in AlnumChars

\* The character class [A-Za-z0-9\-] of EXTENSIONS_REGEX.
IsExtChar(c) == IsAlnum(c) \/ c = "-"

\* str.lower() on one character.
LowerChar(c) ==
    IF c \in UpperChars
    THEN Ch(LowerCase, CHOOSE i \in 1..Len(UpperCase) : Ch(UpperCase, i) = c)
    ELSE c

\* str.lower()
RECURSIVE Lower(_)
Lower(s) == IF s = "" THEN "" ELSE LowerChar(Ch(s, 1)) \o Lower(SubSeq(s, 2, Len(s)))

\* str.lstrip()
RECURSIVE LStrip(_)
LStrip(s) ==
    IF s # "" /\ Ch(s, 1) \in Whitespace THEN LStrip(SubSeq(s, 2, Len(s))) ELSE s

\* str.rstrip()
RECURSIVE RStrip(_)
RStrip(s) ==
    IF s # "" /\ Ch(s, Len(s)) \in Whitespace THEN RStrip(SubSeq(s, 1, Len(s) - 1)) ELSE s

\* str.strip()
Strip(s) == RStrip(LStrip(s))

\* The length of the longest prefix of s made of characters other than those in stop.
RECURSIVE PrefixLen(_, _)
PrefixLen(s, stop) ==
    IF s = "" \/ Ch(s, 1) \in stop THEN 0 ELSE 1 + PrefixLen(SubSeq(s, 2, Len(s)), stop)

\* str.split(sep) for a one-character separator: empty fields are kept.
RECURSIVE SplitOn(_, _)
SplitOn(s, sep) ==
    LET k == PrefixLen(s, {sep})
    IN  IF k = Len(s)
        THEN <<s>>
        ELSE <<SubSeq(s, 1, k)>> \o SplitOn(SubSeq(s, k + 2, Len(s)), sep)

\* str.split() with no separator: runs of whitespace separate, no empty fields.
RECURSIVE SplitWhitespace(_)
SplitWhitespace(s) ==
    LET t == LStrip(s)
        k == PrefixLen(t, Whitespace)
    IN  IF t = ""
        THEN <<>>
        ELSE <<SubSeq(t, 1, k)>> \o SplitWhitespace(SubSeq(t, k + 1, Len(t)))

\* x in list
InList(x, list) == \E i \in 1..Len(list) : list[i] = x

\* dict[key] = value
DictPut(d, key, value) ==
    [k \in (DOMAIN d) \cup {key} |-> IF k = key THEN value ELSE d[k]]

\* {}
EmptyDict == [k \in {} |-> ""]

\* ------------------------------------------------------------------------
\* parse_esmtp_extensions
\* ------------------------------------------------------------------------

\* OLDSTYLE_AUTH_REGEX.match(line): 'auth=(?P<auth>.*)' with re.I, anchored at
\* the start of the line.
OldstyleAuthMatches(line) == Len(line) >= 5 /\ Lower(SubSeq(line, 1, 5)) = "auth="

\* auth_match.group('auth'): the rest of the line after 'auth='.
OldstyleAuthGroup(line) == SubSeq(line, 6, Len(line))

\* EXTENSIONS_REGEX.match(line): '(?P<ext>[A-Za-z0-9][A-Za-z0-9\-]*) ?'
ExtensionMatches(line) == line # "" /\ IsAlnum(Ch(line, 1))

\* The keyword's extent with the hyphen left out of the character class.
RECURSIVE ExtEnd_alnum_only(_)
ExtEnd_alnum_only(line) ==
    IF line = "" \/ ~IsAlnum(Ch(line, 1))
    THEN 0
    ELSE 1 + ExtEnd_alnum_only(SubSeq(line, 2, Len(line)))

\* extensions.end('ext'): the greedy extent of the keyword.
RECURSIVE ExtEnd(_)
ExtEnd(line) ==
    IF line = "" \/ ~IsExtChar(Ch(line, 1)) THEN 0 ELSE 1 + ExtEnd(SubSeq(line, 2, Len(line)))

\* [param.strip().lower() for param in params.split()]
AuthParams(params) ==
    LET toks == SplitWhitespace(params)
    IN  [i \in 1..Len(toks) |-> Lower(Strip(toks[i]))]

\* One iteration of the loop over response_lines[1:].  acc is the loop state:
\* the two collections and whether an exception has escaped.
ParseLine(acc, line) ==
    LET auth_match == OldstyleAuthMatches(line)
        group == OldstyleAuthGroup(line)
        \* auth_match.group('auth')[0] raises IndexError on an empty group
        index_error == auth_match /\ group = ""
        auth_type == Ch(group, 1)
        auth1 == IF auth_match /\ ~InList(auth_type, acc.auth_types)
                 THEN Append(acc.auth_types, Strip(Lower(auth_type)))
                 ELSE acc.auth_types
        ext_match == ExtensionMatches(line)
        extension == Lower(SubSeq(line, 1, ExtEnd(line)))
        params == Strip(SubSeq(line, ExtEnd(line) + 1, Len(line)))
        auth2 == IF ext_match /\ extension = "auth"
                 THEN auth1 \o AuthParams(params)
                 ELSE auth1
    IN  IF acc.raised \/ index_error
        THEN [acc EXCEPT !.raised = TRUE]
        ELSE [raised |-> FALSE,
              esmtp_extensions |->
                  IF ext_match THEN DictPut(acc.esmtp_extensions, extension, params)
                  ELSE acc.esmtp_extensions,
              auth_types |-> auth2]

\* The loop "for line in response_lines[1:]".
RECURSIVE ParseLines(_, _)
ParseLines(acc, lines) ==
    IF lines = <<>> THEN acc ELSE ParseLines(ParseLine(acc, Head(lines)), Tail(lines))

\* parse_esmtp_extensions(message): raised is TRUE when the call ends in an
\* IndexError instead of returning (esmtp_extensions, auth_types).
parse_esmtp_extensions(message) ==
    ParseLines([raised |-> FALSE, esmtp_extensions |-> EmptyDict, auth_types |-> <<>>],
               Tail(SplitOn(message, "\n")))

\* ------------------------------------------------------------------------
\* Status codes, server replies and call outcomes
\* ------------------------------------------------------------------------

\* SMTPStatus members used by esmtp.py (aiosmtplib.status, RFC 5321 codes).
system_status_ok == 211

help_message == 214

ready == 220

closing == 221

completed == 250

will_forward == 251

cannot_vrfy == 252

start_input == 354

\* A code that is in no command's success set.
mailbox_unavailable == 550

\* The status codes the server may answer any command with.
ReplyCodes ==
    {system_status_ok, help_message, ready, closing, completed, will_forward,
     cannot_vrfy, start_input, mailbox_unavailable}

\* The messages the server may answer EHLO with (the status codes are already
\* stripped by the protocol layer; lines are joined by "\n").
EhloMessages ==
    {"mail.example.com\nSIZE 10240000\nSTARTTLS",
     "mail.example.com\nAUTH PLAIN",
     "mail.example.com\nSTARTTLS\nAUTH LOGIN PLAIN\nAUTH=LOGIN",
     "mail.example.com\nstarttls\nAUTH="}

\* parse_esmtp_extensions on each of them, computed once.
ParsedEhlo == [m \in EhloMessages |-> parse_esmtp_extensions(m)]

\* The message the server answers every other command with.
OtherMessage == "mail.example.com ok"

\* The addresses passed to mail() and rcpt().
Addresses == {"alice@example.com", "bob@example.org"}

\* Python's None where a response is expected.
None == [none |-> TRUE]

\* An SMTPResponse(code, message).
SMTPResponse(code, message) == [code |-> code, message |-> message]

\* The transport raising SMTPServerDisconnected instead of delivering a reply.
Disconnected == [disconnected |-> TRUE]

\* No reply read yet in the current call.
NoReply == [noreply |-> TRUE]

\* The outcome of a call: none yet, still running, returned a value, or raised.
NoCall == [op |-> "none", outcome |-> "none", exc |-> "none", value |-> None, args |-> <<>>]

Running(op) == [op |-> op, outcome |-> "running", exc |-> "none", value |-> None, args |-> <<>>]

Returned(op, value) ==
    [op |-> op, outcome |-> "returned", exc |-> "none", value |-> value, args |-> <<>>]

Raised(op, exc, exc_args) ==
    [op |-> op, outcome |-> "raised", exc |-> exc, value |-> None, args |-> exc_args]

\* A returned str (help() returns response.message, not the response).
StrValue(text) == [str |-> text]

\* The callers of the session's methods.  Spec drives the session from one
\* caller, one call at a time.
AllCallers == {1, 2}

SeqCallers == {1}

\* The number of TLS upgrades after which no further starttls() call is started.
MaxTls == 2

\* ------------------------------------------------------------------------
\* State
\* ------------------------------------------------------------------------

VARIABLES
    last_helo_response,   \* ESMTP.last_helo_response: None or an SMTPResponse
    last_ehlo_response,   \* ESMTP._last_ehlo_response: None or an SMTPResponse
    esmtp_extensions,     \* ESMTP.esmtp_extensions: dict keyword -> params
    supports_esmtp,       \* ESMTP.supports_esmtp
    server_auth_methods,  \* ESMTP.server_auth_methods: list of str
    transport,            \* ESMTP.transport: 0 the plaintext transport, n the n-th TLS one
    closed,               \* whether close() has been called
    alive,                \* whether the peer is still connected
    tls_context,          \* ESMTP.tls_context
    client_cert,          \* ESMTP.client_cert
    client_key,           \* ESMTP.client_key
    validate_certs,       \* ESMTP.validate_certs
    pc,                   \* per caller: "idle" or the await the call is suspended at
    sent,                 \* per caller: the commands written by the current/last call
    last_reply,           \* per caller: the last reply the current/last call read
    arg,                  \* per caller: the address argument of the current/last call
    result                \* per caller: the outcome of the current/last call

session == <<last_helo_response, last_ehlo_response, esmtp_extensions, supports_esmtp,
             server_auth_methods>>

connection == <<transport, closed, alive>>

config == <<tls_context, client_cert, client_key, validate_certs>>

vars == <<session, connection, config, pc, sent, last_reply, arg, result>>

\* The five fields __init__ sets and _reset_server_state clears, as one value.
SessionState ==
    [last_helo_response |-> last_helo_response,
     last_ehlo_response |-> last_ehlo_response,
     esmtp_extensions |-> esmtp_extensions,
     supports_esmtp |-> supports_esmtp,
     server_auth_methods |-> server_auth_methods]

\* ESMTP.__init__
InitialSessionState ==
    [last_helo_response |-> None,
     last_ehlo_response |-> None,
     esmtp_extensions |-> EmptyDict,
     supports_esmtp |-> FALSE,
     server_auth_methods |-> <<>>]

\* Python truthiness of a configuration value.
Truthy(v) == v \notin {"None", ""}

Init ==
    /\ last_helo_response = InitialSessionState.last_helo_response
    /\ last_ehlo_response = InitialSessionState.last_ehlo_response
    /\ esmtp_extensions = InitialSessionState.esmtp_extensions
    /\ supports_esmtp = InitialSessionState.supports_esmtp
    /\ server_auth_methods = InitialSessionState.server_auth_methods
    /\ transport = 0
    /\ closed = FALSE
    /\ alive = TRUE
    /\ tls_context \in {"None", "ctx"}
    /\ client_cert \in {"None", "cert.pem"}
    /\ ~(Truthy(tls_context) /\ Truthy(client_cert))
    /\ client_key = IF Truthy(client_cert) THEN "key.pem" ELSE "None"
    /\ validate_certs = "True"
    /\ pc = [c \in AllCallers |-> "idle"]
    /\ sent = [c \in AllCallers |-> <<>>]
    /\ last_reply = [c \in AllCallers |-> NoReply]
    /\ arg = [c \in AllCallers |-> "none"]
    /\ result = [c \in AllCallers |-> NoCall]

\* ------------------------------------------------------------------------
\* Session state operations
\* ------------------------------------------------------------------------

\* self.<field> = ... for the five session fields at once.
SetSessionState(state) ==
    /\ last_helo_response' = state.last_helo_response
    /\ last_ehlo_response' = state.last_ehlo_response
    /\ esmtp_extensions' = state.esmtp_extensions
    /\ supports_esmtp' = state.supports_esmtp
    /\ server_auth_methods' = state.server_auth_methods

\* The setter with "self.supports_esmtp = True" left out.
last_ehlo_response_setter_no_flag(state, response, parsed) ==
    [state EXCEPT !.last_ehlo_response = response,
                  !.esmtp_extensions = parsed.esmtp_extensions,
                  !.server_auth_methods = parsed.auth_types]

\* The setter updating esmtp_extensions in place, keeping the keys the new
\* message does not list.
last_ehlo_response_setter_merges(state, response, parsed) ==
    [state EXCEPT !.last_ehlo_response = response,
                  !.esmtp_extensions =
                      [k \in DOMAIN state.esmtp_extensions \cup DOMAIN parsed.esmtp_extensions |->
                          IF k \in DOMAIN parsed.esmtp_extensions
                          THEN parsed.esmtp_extensions[k]
                          ELSE state.esmtp_extensions[k]],
                  !.server_auth_methods = parsed.auth_types,
                  !.supports_esmtp = TRUE]

\* The last_ehlo_response setter, once parse_esmtp_extensions has returned parsed.
last_ehlo_response_setter(state, response, parsed) ==
    [state EXCEPT !.last_ehlo_response = response,
                  !.esmtp_extensions = parsed.esmtp_extensions,
                  !.server_auth_methods = parsed.auth_types,
                  !.supports_esmtp = TRUE]

\* ESMTP.is_ehlo_or_helo_needed
is_ehlo_or_helo_needed(state) ==
    state.last_ehlo_response = None /\ state.last_helo_response = None

\* supports_extension answering from supports_esmtp instead of the extensions.
supports_extension_by_esmtp_flag(state, extension) == state.supports_esmtp

\* ESMTP.supports_extension
supports_extension(state, extension) == Lower(extension) \in DOMAIN state.esmtp_extensions

\* _reset_server_state with "self.esmtp_extensions = {}" left out.
reset_server_state_keeps_extensions(state) ==
    [state EXCEPT !.last_helo_response = None,
                  !.last_ehlo_response = None,
                  !.supports_esmtp = FALSE,
                  !.server_auth_methods = <<>>]

\* _reset_server_state with "self.server_auth_methods = []" left out.
reset_server_state_keeps_auth_methods(state) ==
    [state EXCEPT !.last_helo_response = None,
                  !.last_ehlo_response = None,
                  !.esmtp_extensions = EmptyDict,
                  !.supports_esmtp = FALSE]

\* ESMTP._reset_server_state
reset_server_state(state) ==
    [state EXCEPT !.last_helo_response = None,
                  !.last_ehlo_response = None,
                  !.esmtp_extensions = EmptyDict,
                  !.supports_esmtp = FALSE,
                  !.server_auth_methods = <<>>]

\* ------------------------------------------------------------------------
\* The connection layer (SMTPConnection and its protocol)
\* ------------------------------------------------------------------------

\* The replies the server may give, with a message out of messages.
ServerReplies(messages) == {SMTPResponse(code, m) : code \in ReplyCodes, m \in messages}

\* A method may be called by an idle caller on an open, connected session.
CanCall(c) == pc[c] = "idle" /\ alive /\ ~closed

\* The start of a call with address argument a.
StartCall(c, a) ==
    /\ CanCall(c)
    /\ last_reply' = [last_reply EXCEPT ![c] = NoReply]
    /\ arg' = [arg EXCEPT ![c] = a]

\* await self.execute_command(cmd, ...): write the command after those the call
\* has written so far (prior) and suspend at "at" until the reply is read.
execute_command(c, prior, cmd, at) ==
    /\ sent' = [sent EXCEPT ![c] = Append(prior, cmd)]
    /\ pc' = [pc EXCEPT ![c] = at]

\* The call of method op is suspended in execute_command.
Await(c, op, prior, cmd, at) ==
    /\ execute_command(c, prior, cmd, at)
    /\ result' = [result EXCEPT ![c] = Running(op)]

\* The reply (or the disconnection) the suspended call is resumed with.
Receive(c, reply) == last_reply' = [last_reply EXCEPT ![c] = reply]

\* The call ends with outcome res.
Finish(c, res) ==
    /\ pc' = [pc EXCEPT ![c] = "idle"]
    /\ result' = [result EXCEPT ![c] = res]

\* SMTPServerDisconnected escapes execute_command: the peer is gone and the
\* error propagates out of the method op.
execute_command_disconnected(c, op) ==
    /\ Receive(c, Disconnected)
    /\ Finish(c, Raised(op, "SMTPServerDisconnected", <<>>))
    /\ alive' = FALSE
    /\ UNCHANGED <<session, transport, closed, config, sent, arg>>

\* self.close()
close == closed' = TRUE

\* self.protocol.starttls(...)[1]._app_transport: the TLS transport when the
\* handshake is performed (on 220), the unchanged transport otherwise.
protocol_starttls_app_transport(response) ==
    IF response.code = ready THEN transport + 1 ELSE transport

\* ------------------------------------------------------------------------
\* Response classification of each command method
\* ------------------------------------------------------------------------

\* helo() clearing the extensions when it records its response.
helo_outcome_clears_extensions(op, state, response) ==
    [state |-> [state EXCEPT !.last_helo_response = response,
                             !.esmtp_extensions = EmptyDict],
     result |-> IF response.code # completed
                THEN Raised(op, "SMTPHeloError", <<response.code, response.message>>)
                ELSE Returned(op, response)]

\* helo(), from the reply on: the new session state and the call's outcome.
helo_outcome(op, state, response) ==
    [state |-> [state EXCEPT !.last_helo_response = response],
     result |-> IF response.code # completed
                THEN Raised(op, "SMTPHeloError", <<response.code, response.message>>)
                ELSE Returned(op, response)]

\* ehlo(), from the reply on: the new session state and the call's outcome.
ehlo_outcome(op, state, response) ==
    LET parsed == ParsedEhlo[response.message]
    IN  IF parsed.raised
        THEN [state |-> state, result |-> Raised(op, "IndexError", <<>>)]
        ELSE [state |-> last_ehlo_response_setter(state, response, parsed),
              result |-> IF response.code # completed
                         THEN Raised(op, "SMTPHeloError", <<response.code, response.message>>)
                         ELSE Returned(op, response)]

help_success_codes == {system_status_ok, help_message, completed}

help_outcome(response) ==
    IF response.code \notin help_success_codes
    THEN Raised("help", "SMTPResponseException", <<response.code, response.message>>)
    ELSE Returned("help", StrValue(response.message))

rset_outcome(response) ==
    IF response.code # completed
    THEN Raised("rset", "SMTPResponseException", <<response.code, response.message>>)
    ELSE Returned("rset", response)

noop_outcome(response) ==
    IF response.code # completed
    THEN Raised("noop", "SMTPResponseException", <<response.code, response.message>>)
    ELSE Returned("noop", response)

vrfy_success_codes == {completed, will_forward, cannot_vrfy}

vrfy_outcome(response) ==
    IF response.code \notin vrfy_success_codes
    THEN Raised("vrfy", "SMTPResponseException", <<response.code, response.message>>)
    ELSE Returned("vrfy", response)

expn_outcome(response) ==
    IF response.code # completed
    THEN Raised("expn", "SMTPResponseException", <<response.code, response.message>>)
    ELSE Returned("expn", response)

\* quit() accepting 250 as well as 221.
quit_outcome_accepts_completed(response) ==
    IF response.code \notin {closing, completed}
    THEN Raised("quit", "SMTPResponseException", <<response.code, response.message>>)
    ELSE Returned("quit", response)

quit_outcome(response) ==
    IF response.code # closing
    THEN Raised("quit", "SMTPResponseException", <<response.code, response.message>>)
    ELSE Returned("quit", response)

mail_outcome(response, sender) ==
    IF response.code # completed
    THEN Raised("mail", "SMTPSenderRefused", <<response.code, response.message, sender>>)
    ELSE Returned("mail", response)

rcpt_success_codes == {completed, will_forward}

rcpt_outcome(response, recipient) ==
    IF response.code \notin rcpt_success_codes
    THEN Raised("rcpt", "SMTPRecipientRefused",
                <<response.code, response.message, recipient>>)
    ELSE Returned("rcpt", response)

\* data(), the check of the reply to the DATA command: whether the body is sent.
data_start_accepted(start_response) == start_response.code = start_input

data_start_error(start_response) ==
    Raised("data", "SMTPDataError", <<start_response.code, start_response.message>>)

\* data(), the check of the reply to the message body.
data_outcome(response) ==
    IF response.code # completed
    THEN Raised("data", "SMTPDataError", <<response.code, response.message>>)
    ELSE Returned("data", response)

\* ------------------------------------------------------------------------
\* The command methods.  Each action is one method: the first disjunct is the
\* call up to its first await, the others resume it with the server's reply
\* or with the loss of the connection.
\* ------------------------------------------------------------------------

helo(c) ==
    \/ /\ StartCall(c, "none")
       /\ Await(c, "helo", <<>>, "HELO", "helo")
       /\ UNCHANGED <<session, connection, config>>
    \/ /\ pc[c] = "helo"
       /\ \E response \in ServerReplies({OtherMessage}) :
              LET o == helo_outcome("helo", SessionState, response)
              IN  /\ Receive(c, response)
                  /\ SetSessionState(o.state)
                  /\ Finish(c, o.result)
       /\ UNCHANGED <<connection, config, sent, arg>>
    \/ /\ pc[c] = "helo"
       /\ execute_command_disconnected(c, "helo")

ehlo(c) ==
    \/ /\ StartCall(c, "none")
       /\ Await(c, "ehlo", <<>>, "EHLO", "ehlo")
       /\ UNCHANGED <<session, connection, config>>
    \/ /\ pc[c] = "ehlo"
       /\ \E response \in ServerReplies(EhloMessages) :
              LET o == ehlo_outcome("ehlo", SessionState, response)
              IN  /\ Receive(c, response)
                  /\ SetSessionState(o.state)
                  /\ Finish(c, o.result)
       /\ UNCHANGED <<connection, config, sent, arg>>
    \/ /\ pc[c] = "ehlo"
       /\ execute_command_disconnected(c, "ehlo")

help(c) ==
    \/ /\ StartCall(c, "none")
       /\ Await(c, "help", <<>>, "HELP", "help")
       /\ UNCHANGED <<session, connection, config>>
    \/ /\ pc[c] = "help"
       /\ \E response \in ServerReplies({OtherMessage}) :
              /\ Receive(c, response)
              /\ Finish(c, help_outcome(response))
       /\ UNCHANGED <<session, connection, config, sent, arg>>
    \/ /\ pc[c] = "help"
       /\ execute_command_disconnected(c, "help")

rset(c) ==
    \/ /\ StartCall(c, "none")
       /\ Await(c, "rset", <<>>, "RSET", "rset")
       /\ UNCHANGED <<session, connection, config>>
    \/ /\ pc[c] = "rset"
       /\ \E response \in ServerReplies({OtherMessage}) :
              /\ Receive(c, response)
              /\ Finish(c, rset_outcome(response))
       /\ UNCHANGED <<session, connection, config, sent, arg>>
    \/ /\ pc[c] = "rset"
       /\ execute_command_disconnected(c, "rset")

noop(c) ==
    \/ /\ StartCall(c, "none")
       /\ Await(c, "noop", <<>>, "NOOP", "noop")
       /\ UNCHANGED <<session, connection, config>>
    \/ /\ pc[c] = "noop"
       /\ \E response \in ServerReplies({OtherMessage}) :
              /\ Receive(c, response)
              /\ Finish(c, noop_outcome(response))
       /\ UNCHANGED <<session, connection, config, sent, arg>>
    \/ /\ pc[c] = "noop"
       /\ execute_command_disconnected(c, "noop")

vrfy(c) ==
    \/ /\ \E address \in Addresses : StartCall(c, address)
       /\ Await(c, "vrfy", <<>>, "VRFY", "vrfy")
       /\ UNCHANGED <<session, connection, config>>
    \/ /\ pc[c] = "vrfy"
       /\ \E response \in ServerReplies({OtherMessage}) :
              /\ Receive(c, response)
              /\ Finish(c, vrfy_outcome(response))
       /\ UNCHANGED <<session, connection, config, sent, arg>>
    \/ /\ pc[c] = "vrfy"
       /\ execute_command_disconnected(c, "vrfy")

expn(c) ==
    \/ /\ \E address \in Addresses : StartCall(c, address)
       /\ Await(c, "expn", <<>>, "EXPN", "expn")
       /\ UNCHANGED <<session, connection, config>>
    \/ /\ pc[c] = "expn"
       /\ \E response \in ServerReplies({OtherMessage}) :
              /\ Receive(c, response)
              /\ Finish(c, expn_outcome(response))
       /\ UNCHANGED <<session, connection, config, sent, arg>>
    \/ /\ pc[c] = "expn"
       /\ execute_command_disconnected(c, "expn")

quit(c) ==
    \/ /\ StartCall(c, "none")
       /\ Await(c, "quit", <<>>, "QUIT", "quit")
       /\ UNCHANGED <<session, connection, config>>
    \/ /\ pc[c] = "quit"
       /\ \E response \in ServerReplies({OtherMessage}) :
              /\ Receive(c, response)
              /\ IF quit_outcome(response).outcome = "raised"
                 THEN UNCHANGED closed
                 ELSE close
              /\ Finish(c, quit_outcome(response))
       /\ UNCHANGED <<session, transport, alive, config, sent, arg>>
    \/ /\ pc[c] = "quit"
       /\ execute_command_disconnected(c, "quit")

mail(c) ==
    \/ /\ \E address \in Addresses : StartCall(c, address)
       /\ Await(c, "mail", <<>>, "MAIL", "mail")
       /\ UNCHANGED <<session, connection, config>>
    \/ /\ pc[c] = "mail"
       /\ \E response \in ServerReplies({OtherMessage}) :
              /\ Receive(c, response)
              /\ Finish(c, mail_outcome(response, arg[c]))
       /\ UNCHANGED <<session, connection, config, sent, arg>>
    \/ /\ pc[c] = "mail"
       /\ execute_command_disconnected(c, "mail")

rcpt(c) ==
    \/ /\ \E address \in Addresses : StartCall(c, address)
       /\ Await(c, "rcpt", <<>>, "RCPT", "rcpt")
       /\ UNCHANGED <<session, connection, config>>
    \/ /\ pc[c] = "rcpt"
       /\ \E response \in ServerReplies({OtherMessage}) :
              /\ Receive(c, response)
              /\ Finish(c, rcpt_outcome(response, arg[c]))
       /\ UNCHANGED <<session, connection, config, sent, arg>>
    \/ /\ pc[c] = "rcpt"
       /\ execute_command_disconnected(c, "rcpt")

\* data(): "except SMTPServerDisconnected as exc: self.close(); raise exc" around
\* write_message_data and read_response.
data_body_disconnected(c) ==
    /\ Receive(c, Disconnected)
    /\ close
    /\ alive' = FALSE
    /\ Finish(c, Raised("data", "SMTPServerDisconnected", <<>>))
    /\ UNCHANGED <<session, transport, config, sent, arg>>

data(c) ==
    \/ /\ StartCall(c, "none")
       /\ Await(c, "data", <<>>, "DATA", "data_start")
       /\ UNCHANGED <<session, connection, config>>
    \/ /\ pc[c] = "data_start"
       /\ \E start_response \in ServerReplies({OtherMessage}) :
              /\ Receive(c, start_response)
              /\ IF ~data_start_accepted(start_response)
                 THEN /\ Finish(c, data_start_error(start_response))
                      /\ UNCHANGED sent
                 ELSE \* self.protocol.write_message_data, then read_response
                      Await(c, "data", sent[c], "<message>", "data_body")
       /\ UNCHANGED <<session, connection, config, arg>>
    \/ /\ pc[c] = "data_start"
       /\ execute_command_disconnected(c, "data")
    \/ /\ pc[c] = "data_body"
       /\ \E response \in ServerReplies({OtherMessage}) :
              /\ Receive(c, response)
              /\ Finish(c, data_outcome(response))
       /\ UNCHANGED <<session, connection, config, sent, arg>>
    \/ /\ pc[c] = "data_body"
       /\ data_body_disconnected(c)

\* ------------------------------------------------------------------------
\* Greeting auto-negotiation and STARTTLS
\* ------------------------------------------------------------------------

\* _ehlo_or_helo_if_needed: the command it sends first, "none" when it sends none.
ehlo_or_helo_first_command(state) ==
    IF is_ehlo_or_helo_needed(state) THEN "EHLO" ELSE "none"

\* "except SMTPHeloError" widened to "except Exception".
ehlo_or_helo_falls_back_on_any_error(ehlo_result) == ehlo_result.outcome = "raised"

\* _ehlo_or_helo_if_needed: "except SMTPHeloError", the outcomes of ehlo() after
\* which helo() is called.
ehlo_or_helo_falls_back(ehlo_result) == ehlo_result.exc = "SMTPHeloError"

\* starttls(): the values the call's parameters may take.
ValidateCertsArgs == {"None", "True"}

\* client_cert and client_key, passed together.
ClientCertKeyArgs ==
    {<<"_default", "_default">>, <<"None", "None">>, <<"cert.pem", "key.pem">>}

TlsContextArgs == {"_default", "None", "ctx"}

\* The check with client_cert negated.
starttls_config_conflict_negated(context, cert) == Truthy(context) /\ ~Truthy(cert)

\* starttls(): "if self.tls_context and self.client_cert", on the values the
\* assignments before it have left.
starttls_config_conflict(context, cert) == Truthy(context) /\ Truthy(cert)

\* starttls(), after _ehlo_or_helo_if_needed has returned with the session in
\* state: either SMTPException is raised or the STARTTLS exchange begins.
starttls_after_greeting(c, state, prior) ==
    IF ~supports_extension(state, "starttls")
    THEN /\ sent' = [sent EXCEPT ![c] = prior]
         /\ Finish(c, Raised("starttls", "SMTPException", <<>>))
    ELSE Await(c, "starttls", prior, "STARTTLS", "starttls")

\* The reset tested against SMTPStatus.completed instead of SMTPStatus.ready.
starttls_outcome_resets_on_completed(state, response) ==
    [state |-> IF response.code = completed THEN reset_server_state(state) ELSE state,
     result |-> Returned("starttls", response)]

\* The reset run without the test of the reply code.
starttls_outcome_always_resets(state, response) ==
    [state |-> reset_server_state(state),
     result |-> Returned("starttls", response)]

\* starttls(), from the reply to STARTTLS on: the new session state and the
\* call's outcome.
starttls_outcome(state, response) ==
    [state |-> IF response.code = ready THEN reset_server_state(state) ELSE state,
     result |-> Returned("starttls", response)]

\* The handler with "self.close()" left out.
starttls_disconnected_no_close(c) ==
    /\ Receive(c, Disconnected)
    /\ alive' = FALSE
    /\ Finish(c, Raised("starttls", "SMTPServerDisconnected", <<>>))
    /\ UNCHANGED <<session, transport, closed, config, sent, arg>>

\* starttls(): "except SMTPServerDisconnected as exc: self.close(); raise exc"
\* around self.protocol.starttls.
starttls_disconnected(c) ==
    /\ Receive(c, Disconnected)
    /\ close
    /\ alive' = FALSE
    /\ Finish(c, Raised("starttls", "SMTPServerDisconnected", <<>>))
    /\ UNCHANGED <<session, transport, config, sent, arg>>

starttls(c) ==
    \/ \E a_validate_certs \in ValidateCertsArgs, a_client \in ClientCertKeyArgs,
          a_tls_context \in TlsContextArgs :
          /\ StartCall(c, "none")
          /\ transport < MaxTls
          /\ validate_certs' =
                 IF a_validate_certs # "None" THEN a_validate_certs ELSE validate_certs
          /\ client_cert' = IF a_client[1] # "_default" THEN a_client[1] ELSE client_cert
          /\ client_key' = IF a_client[2] # "_default" THEN a_client[2] ELSE client_key
          /\ tls_context' = IF a_tls_context # "_default" THEN a_tls_context ELSE tls_context
          /\ IF starttls_config_conflict(tls_context', client_cert')
             THEN /\ sent' = [sent EXCEPT ![c] = <<>>]
                  /\ Finish(c, Raised("starttls", "ValueError", <<>>))
             ELSE IF ehlo_or_helo_first_command(SessionState) # "none"
                  THEN Await(c, "starttls", <<>>, ehlo_or_helo_first_command(SessionState),
                             "starttls_" \o Lower(ehlo_or_helo_first_command(SessionState)))
                  ELSE starttls_after_greeting(c, SessionState, <<>>)
          /\ UNCHANGED <<session, connection>>
    \/ \* _ehlo_or_helo_if_needed: self.ehlo() resumes
       /\ pc[c] = "starttls_ehlo"
       /\ \E response \in ServerReplies(EhloMessages) :
              LET o == ehlo_outcome("starttls", SessionState, response)
              IN  /\ Receive(c, response)
                  /\ SetSessionState(o.state)
                  /\ IF ehlo_or_helo_falls_back(o.result)
                     THEN Await(c, "starttls", sent[c], "HELO", "starttls_helo")
                     ELSE IF o.result.outcome = "raised"
                          THEN Finish(c, o.result) /\ UNCHANGED sent
                          ELSE starttls_after_greeting(c, o.state, sent[c])
       /\ UNCHANGED <<connection, config, arg>>
    \/ \* _ehlo_or_helo_if_needed: self.helo() resumes
       /\ pc[c] = "starttls_helo"
       /\ \E response \in ServerReplies({OtherMessage}) :
              LET o == helo_outcome("starttls", SessionState, response)
              IN  /\ Receive(c, response)
                  /\ SetSessionState(o.state)
                  /\ IF o.result.outcome = "raised"
                     THEN Finish(c, o.result) /\ UNCHANGED sent
                     ELSE starttls_after_greeting(c, o.state, sent[c])
       /\ UNCHANGED <<connection, config, arg>>
    \/ \* the connection is lost during the greeting
       /\ pc[c] \in {"starttls_ehlo", "starttls_helo"}
       /\ execute_command_disconnected(c, "starttls")
    \/ \* self.protocol.starttls resumes
       /\ pc[c] = "starttls"
       /\ \E response \in ServerReplies({OtherMessage}) :
              LET o == starttls_outcome(SessionState, response)
              IN  /\ Receive(c, response)
                  /\ transport' = protocol_starttls_app_transport(response)
                  /\ SetSessionState(o.state)
                  /\ Finish(c, o.result)
       /\ UNCHANGED <<closed, alive, config, sent, arg>>
    \/ /\ pc[c] = "starttls"
       /\ starttls_disconnected(c)

\* ------------------------------------------------------------------------
\* The session driven by one caller
\* ------------------------------------------------------------------------

\* Greeting, STARTTLS and QUIT: the methods that read or write the session
\* state, the transport or the configuration.
Next ==
    \E c \in SeqCallers :
        \/ helo(c)
        \/ ehlo(c)
        \/ quit(c)
        \/ starttls(c)

Spec == Init /\ [][Next]_vars

\* Every command method but starttls, each answered with every reply code.
CommandsNext ==
    \E c \in SeqCallers :
        \/ helo(c)
        \/ ehlo(c)
        \/ help(c)
        \/ rset(c)
        \/ noop(c)
        \/ vrfy(c)
        \/ expn(c)
        \/ quit(c)
        \/ mail(c)
        \/ rcpt(c)
        \/ data(c)

SpecCommands == Init /\ [][CommandsNext]_vars

\* ------------------------------------------------------------------------
\* The session shared by two tasks
\* ------------------------------------------------------------------------

\* Two tasks on one session, each awaiting one method call (starttls or data).
\* The methods are coroutines without a lock of their own: a task runs up to
\* its next await, where the other task may run.
ConcurrentNext ==
    \E c \in AllCallers :
        /\ pc[c] = "idle" => result[c] = NoCall
        /\ \/ starttls(c)
           \/ data(c)

SpecConcurrent == Init /\ [][ConcurrentNext]_vars


\* ------------------------------------------------------------------------
\* The EHLO response parser applied to a range of messages
\* ------------------------------------------------------------------------

\* The most capability lines a message has after its banner line.
MaxLines == 2

\* Banner lines (response_lines[0], which the parser ignores).
ParserBanners == {"example.com", "250-example.com"}

\* Capability lines: plain and status-prefixed keywords, modern and old-style
\* AUTH advertisements, with repeated and mixed-case mechanisms.
ParserLines ==
    {"SIZE 10240000", "STARTTLS", "250-SIZE 10240000", "250 STARTTLS",
     "AUTH=LOGIN", "AUTH LOGIN PLAIN", "AUTH LOGIN PLAIN LOGIN",
     "auth=plain login", "AUTH="}

\* The messages of a banner and at most n capability lines, joined by "\n".
RECURSIVE MessagesOf(_)
MessagesOf(n) ==
    IF n = 0
    THEN ParserBanners
    ELSE MessagesOf(n - 1)
         \cup {m \o "\n" \o line : m \in MessagesOf(n - 1), line \in ParserLines}

ParserMessages == MessagesOf(MaxLines)

\* "self.last_ehlo_response = SMTPResponse(250, message)" on a new session:
\* the setter calls parse_esmtp_extensions(message) and stores what it
\* returns; when the parser raises, nothing is assigned.
set_last_ehlo_response(message) ==
    LET response == SMTPResponse(completed, message)
        parsed == parse_esmtp_extensions(message)
    IN  /\ last_ehlo_response = None
        /\ ~parsed.raised
        /\ SetSessionState(last_ehlo_response_setter(SessionState, response, parsed))
        /\ UNCHANGED <<connection, config, pc, sent, last_reply, arg, result>>

ParserNext == \E message \in ParserMessages : set_last_ehlo_response(message)

SpecParser == Init /\ [][ParserNext]_vars


\* ------------------------------------------------------------------------
\* Properties
\* ------------------------------------------------------------------------

\* The last call of caller c was method op and has ended.
Ended(c, op) == pc[c] = "idle" /\ result[c].op = op /\ result[c].outcome \in {"returned", "raised"}

\* The last reply caller c read is a server response (not a disconnection).
GotResponse(c) == last_reply[c] # NoReply /\ last_reply[c] # Disconnected

\* C1: whenever starttls() has received a 220 response, on return the whole
\* session state is the initial empty one: both greeting responses unset, no
\* extensions, no auth methods, supports_esmtp false; so
\* supports_extension('starttls') is false and is_ehlo_or_helo_needed is true.
C1_StarttlsReadyResetsState ==
    \A c \in AllCallers :
        (Ended(c, "starttls") /\ GotResponse(c) /\ last_reply[c].code = ready
         /\ "STARTTLS" \in {sent[c][i] : i \in 1..Len(sent[c])})
        => /\ SessionState = InitialSessionState
           /\ last_helo_response = None
           /\ last_ehlo_response = None
           /\ esmtp_extensions = EmptyDict
           /\ server_auth_methods = <<>>
           /\ supports_esmtp = FALSE
           /\ ~supports_extension(SessionState, "starttls")
           /\ is_ehlo_or_helo_needed(SessionState)

\* C1 witness: a starttls() call that went through the greeting (EHLO sent by
\* the call itself), got 220 for STARTTLS and has returned.
C1_Witness ==
    /\ Ended(1, "starttls")
    /\ result[1].outcome = "returned"
    /\ sent[1] = <<"EHLO", "STARTTLS">>
    /\ last_reply[1] = SMTPResponse(ready, OtherMessage)
    /\ transport = 1

\* The commands caller c's current/last call has written.
Sent(c) == {sent[c][i] : i \in 1..Len(sent[c])}

\* The success codes the command table gives each method's final reply.
TableSuccessCodes(op) ==
    CASE op \in {"helo", "ehlo", "rset", "noop", "expn", "mail", "data"} -> {completed}
      [] op = "help" -> {system_status_ok, help_message, completed}
      [] op = "vrfy" -> {completed, will_forward, cannot_vrfy}
      [] op = "rcpt" -> {completed, will_forward}
      [] op = "quit" -> {closing}
      [] op = "starttls" -> {ready}

\* C2: no command method swallows a non-success status code: a call that has
\* returned normally read a final reply whose code is in the method's success
\* set; in particular starttls() returns normally only on 220.
C2_NoSwallowedStatus ==
    \A c \in AllCallers :
        (pc[c] = "idle" /\ result[c].outcome = "returned")
        => (GotResponse(c) /\ last_reply[c].code \in TableSuccessCodes(result[c].op))

\* C3: a greeting that fails with SMTPHeloError on a non-250 code leaves the
\* session state as it was before the call: ehlo() leaves last_ehlo_response,
\* esmtp_extensions, server_auth_methods and supports_esmtp, and helo() leaves
\* last_helo_response.
C3_FailedGreetingKeepsState ==
    [][\A c \in AllCallers :
           (pc[c] \in {"helo", "ehlo"} /\ result'[c].exc = "SMTPHeloError")
           => SessionState' = SessionState]_vars

\* C4: greeting auto-negotiation is ESMTP-first.  A starttls() call that finds
\* is_ehlo_or_helo_needed true (and no configuration conflict) writes EHLO
\* first; HELO is written only as the call's second command, right after its
\* EHLO, and exactly when that EHLO was answered with a non-250 response (the
\* SMTPHeloError case), not after a 250 EHLO, a disconnection or another
\* error; a call that finds is_ehlo_or_helo_needed false writes no greeting.
C4_EsmtpFirst ==
    [][\A c \in AllCallers :
           LET starts == pc[c] = "idle" /\ result'[c].op = "starttls"
               ehlo_failed == /\ last_reply'[c] # Disconnected
                              /\ last_reply'[c].code # completed
                              /\ result'[c].exc # "IndexError"
           IN  /\ (starts /\ is_ehlo_or_helo_needed(SessionState)
                   /\ result'[c].exc # "ValueError")
                  => (sent'[c] = <<"EHLO">> /\ pc'[c] = "starttls_ehlo")
               /\ (starts /\ ~is_ehlo_or_helo_needed(SessionState))
                  => (Sent(c)' \cap {"EHLO", "HELO"} = {}
                      /\ pc'[c] \in {"idle", "starttls"})
               /\ (pc[c] = "starttls_ehlo" /\ pc'[c] # pc[c])
                  => (pc'[c] = "starttls_helo" <=> ehlo_failed)
               /\ (pc'[c] = "starttls_helo" /\ pc[c] # "starttls_helo")
                  => (pc[c] = "starttls_ehlo" /\ sent'[c] = <<"EHLO", "HELO">>)
               /\ (result'[c].op = "starttls" /\ "HELO" \in Sent(c)')
                  => (sent'[c][1] = "EHLO" /\ sent'[c][2] = "HELO")
               /\ (pc[c] \in {"starttls_helo", "starttls"})
                  => Sent(c)' \cap {"EHLO", "HELO"} = Sent(c) \cap {"EHLO", "HELO"}]_vars

\* C4 witness: the fallback has happened; the call's EHLO was answered with a
\* non-250 code and its HELO has been written.
C4_Witness ==
    /\ pc[1] = "starttls_helo"
    /\ sent[1] = <<"EHLO", "HELO">>
    /\ last_reply[1].code = mailbox_unavailable

\* C5: STARTTLS is only ever written in a state where esmtp_extensions contains
\* 'starttls'; when it does not after the greeting, starttls() raises
\* SMTPException at once: no STARTTLS is written, the transport is not
\* replaced, the session is not closed and the session state is not reset.
C5_StarttlsOnlyIfAdvertised ==
    [][\A c \in AllCallers :
           LET greeted == /\ result'[c].op = "starttls"
                          /\ pc[c] \in {"idle", "starttls_ehlo", "starttls_helo"}
                          /\ pc'[c] \in {"idle", "starttls"}
                          /\ result'[c].exc \in {"none", "SMTPException"}
           IN  /\ ("STARTTLS" \in Sent(c)' /\ sent'[c] # sent[c])
                  => "starttls" \in DOMAIN esmtp_extensions'
               /\ (greeted /\ "starttls" \notin DOMAIN esmtp_extensions')
                  => /\ result'[c] = Raised("starttls", "SMTPException", <<>>)
                     /\ pc'[c] = "idle"
               /\ (greeted /\ result'[c].exc = "SMTPException")
                  => /\ "STARTTLS" \notin Sent(c)'
                     /\ transport' = transport
                     /\ closed' = closed
                     /\ ~is_ehlo_or_helo_needed(SessionState')
                     /\ "starttls" \notin DOMAIN esmtp_extensions']_vars

\* C5 witness: starttls() greeted a server whose EHLO reply does not list
\* STARTTLS and raised SMTPException.
C5_Witness ==
    /\ Ended(1, "starttls")
    /\ result[1].exc = "SMTPException"
    /\ sent[1] = <<"EHLO">>
    /\ last_ehlo_response # None
    /\ "auth" \in DOMAIN esmtp_extensions

\* How many times caller c's current/last call has written cmd.
TimesSent(c, cmd) == Cardinality({i \in 1..Len(sent[c]) : sent[c][i] = cmd})

\* C6: a disconnection in either phase of data() (while waiting for the reply
\* to DATA, or while writing the body and waiting for the final reply) closes
\* the session before the error reaches the caller, and DATA is not retried.
C6_DataDisconnectCloses ==
    \A c \in AllCallers :
        (Ended(c, "data") /\ result[c].exc = "SMTPServerDisconnected")
        => (closed /\ TimesSent(c, "DATA") = 1)

\* C7: a disconnection during the STARTTLS exchange of starttls() closes the
\* session and raises SMTPServerDisconnected; STARTTLS has been written exactly
\* once, the transport is not replaced and the session state is not reset.
C7_StarttlsDisconnectCloses ==
    [][\A c \in AllCallers :
           (pc[c] = "starttls" /\ last_reply'[c] = Disconnected)
           => /\ closed'
              /\ pc'[c] = "idle"
              /\ result'[c] = Raised("starttls", "SMTPServerDisconnected", <<>>)
              /\ sent'[c] = sent[c]
              /\ TimesSent(c, "STARTTLS") = 1
              /\ transport' = transport
              /\ SessionState' = SessionState
              /\ ~is_ehlo_or_helo_needed(SessionState')]_vars

\* C7 witness: starttls() lost the connection after writing STARTTLS and has
\* raised, with the session closed.
C7_Witness ==
    /\ Ended(1, "starttls")
    /\ result[1].exc = "SMTPServerDisconnected"
    /\ last_reply[1] = Disconnected
    /\ "STARTTLS" \in Sent(1)
    /\ closed

\* The error kind the command table gives each method.
TableError(op, response, address) ==
    CASE op \in {"helo", "ehlo"} ->
             Raised(op, "SMTPHeloError", <<response.code, response.message>>)
      [] op = "mail" ->
             Raised(op, "SMTPSenderRefused", <<response.code, response.message, address>>)
      [] op = "rcpt" ->
             Raised(op, "SMTPRecipientRefused", <<response.code, response.message, address>>)
      [] op = "data" ->
             Raised(op, "SMTPDataError", <<response.code, response.message>>)
      [] OTHER ->
             Raised(op, "SMTPResponseException", <<response.code, response.message>>)

\* C8: status-code classification, for every command and every reply code: the
\* call succeeds iff the code is in the command's success set, and then returns
\* the reply unchanged (help() its message); otherwise it raises the command's
\* error kind with the code and message (and the sender or recipient).  DATA
\* goes on to send the body iff its first reply is 354.
C8_Classification ==
    \A c \in AllCallers :
        LET op == result[c].op
            r == last_reply[c]
        IN  /\ pc[c] = "data_body" => (GotResponse(c) /\ r.code = start_input)
            /\ (Ended(c, "data") /\ GotResponse(c) /\ sent[c] = <<"DATA">>)
               => (r.code # start_input /\ result[c] = TableError(op, r, arg[c]))
            /\ (Ended(c, op) /\ GotResponse(c) /\ op # "starttls"
                /\ ~(op = "data" /\ sent[c] = <<"DATA">>))
               => result[c] = IF r.code \in TableSuccessCodes(op)
                              THEN Returned(op, IF op = "help" THEN StrValue(r.message) ELSE r)
                              ELSE TableError(op, r, arg[c])

\* C9: when a TLS context and a client certificate are both in effect for a
\* starttls() call (after the call's arguments are applied), ValueError is
\* raised before any network activity: the call writes nothing, and the
\* transport, the connection and the session state are unchanged.
C9_ConfigConflictBeforeNetwork ==
    [][\A c \in AllCallers :
           (pc[c] = "idle" /\ result'[c].op = "starttls"
            /\ Truthy(tls_context') /\ Truthy(client_cert'))
           => /\ result'[c] = Raised("starttls", "ValueError", <<>>)
              /\ pc'[c] = "idle"
              /\ sent'[c] = <<>>
              /\ last_reply'[c] = NoReply
              /\ UNCHANGED connection
              /\ SessionState' = SessionState]_vars

\* C9 witness: starttls() was called with a TLS context on a session that has a
\* client certificate and a greeting on record, and raised ValueError.
C9_Witness ==
    /\ Ended(1, "starttls")
    /\ result[1].exc = "ValueError"
    /\ tls_context = "ctx"
    /\ client_cert = "cert.pem"
    /\ last_ehlo_response # None
    /\ sent[1] = <<>>

\* C10: in every reachable state supports_esmtp is true iff last_ehlo_response
\* is set.
C10_SupportsEsmtpIffEhloResponse == supports_esmtp <=> (last_ehlo_response # None)

\* C10 witness: an EHLO response has been recorded after an earlier TLS upgrade
\* had reset the state.
C10_Witness ==
    /\ transport = 1
    /\ supports_esmtp
    /\ last_ehlo_response # None
    /\ Ended(1, "ehlo")

\* A step in which _reset_server_state runs: a starttls() call reads a 220
\* reply to STARTTLS.
ResetStep(c) ==
    /\ pc[c] = "starttls"
    /\ last_reply'[c] # Disconnected
    /\ last_reply'[c].code = ready

\* A step in which an EHLO response is recorded through the last_ehlo_response
\* setter, by ehlo() called directly or from _ehlo_or_helo_if_needed.
EhloRecordedStep(c) ==
    /\ pc[c] \in {"ehlo", "starttls_ehlo"}
    /\ last_reply'[c] # Disconnected
    /\ last_ehlo_response' = last_reply'[c]

\* C11 as stated: the reset is the only way extensions are removed; across
\* every step that is not a reset, every key of esmtp_extensions stays a key.
C11_OnlyResetRemovesExtensions ==
    [][(\A c \in AllCallers : ~ResetStep(c))
       => DOMAIN esmtp_extensions \subseteq DOMAIN esmtp_extensions']_vars

\* C11: extensions are removed only by the reset or by recording a new EHLO
\* response, which replaces the whole mapping by the parse of its message:
\* across every step that is neither (helo, mail, rcpt, data, rset, noop,
\* vrfy, expn, help, quit, a failed or capability-unsupported starttls, a
\* disconnection), esmtp_extensions is unchanged, and an EHLO step leaves
\* exactly the keys of the parse of the new message.
C11_ResetOrEhloRemovesExtensions ==
    [][\A c \in AllCallers :
           /\ (\A d \in AllCallers : ~ResetStep(d) /\ ~EhloRecordedStep(d))
              => esmtp_extensions' = esmtp_extensions
           /\ EhloRecordedStep(c)
              => esmtp_extensions' = ParsedEhlo[last_reply'[c].message].esmtp_extensions]_vars

\* C11 witness: a helo() has ended while extensions learned from an earlier
\* EHLO are still held.
C11_Witness ==
    /\ Ended(1, "helo")
    /\ last_helo_response # None
    /\ "starttls" \in DOMAIN esmtp_extensions
    /\ "size" \in DOMAIN esmtp_extensions

\* C12: _reset_server_state runs exactly when starttls() has received a 220
\* reply: the session state is cleared (goes from a non-initial value to the
\* initial one) in the steps in which a starttls() call reads a 220 reply to
\* STARTTLS and in no other step; not on a non-220 reply, a disconnection, the
\* capability-unsupported or configuration failure, or during another command.
C12_ResetExactlyOnReady ==
    [][(SessionState # InitialSessionState /\ SessionState' = InitialSessionState)
       <=> (\E c \in AllCallers : ResetStep(c))]_vars

\* C12 witness: a starttls() call made after an explicit greeting wrote only
\* STARTTLS, read 220 and left the session state cleared.
C12_Witness ==
    /\ Ended(1, "starttls")
    /\ sent[1] = <<"STARTTLS">>
    /\ last_reply[1] = SMTPResponse(ready, OtherMessage)
    /\ SessionState = InitialSessionState

\* C14: quit() closes the session iff the server replied 221.  A quit() that
\* read 221 has closed the session by the time it returns that response; one
\* that read any other code raised the response error carrying the code and
\* message and left the session open.
C14_QuitClosesIffClosing ==
    \A c \in AllCallers :
        (Ended(c, "quit") /\ GotResponse(c))
        => /\ closed <=> last_reply[c].code = closing
           /\ last_reply[c].code = closing => result[c] = Returned("quit", last_reply[c])
           /\ last_reply[c].code # closing
              => result[c] = Raised("quit", "SMTPResponseException",
                                    <<last_reply[c].code, last_reply[c].message>>)

\* C14 witness: quit() has returned the 221 response and the session is closed.
C14_Witness ==
    /\ closed
    /\ sent[1] = <<"QUIT">>
    /\ result[1] = Returned("quit", SMTPResponse(closing, OtherMessage))

C19_ExtensionsAreParseOfLastEhlo ==
    [][/\ last_ehlo_response' # None
          => LET parsed == ParsedEhlo[last_ehlo_response'.message]
             IN  /\ ~parsed.raised
                 /\ esmtp_extensions' = parsed.esmtp_extensions
                 /\ server_auth_methods' = parsed.auth_types
       /\ \A c \in AllCallers :
              (pc[c] \in {"helo", "starttls_helo"} \/ pc'[c] = "helo")
              => UNCHANGED <<esmtp_extensions, server_auth_methods,
                             last_ehlo_response, supports_esmtp>>]_vars

\* C19 witness: a helo() has recorded its response while the capabilities of an
\* EHLO that listed authentication methods are held.
C19_Witness ==
    /\ Ended(1, "helo")
    /\ last_helo_response = SMTPResponse(completed, OtherMessage)
    /\ last_ehlo_response # None
    /\ server_auth_methods # <<>>

\* A step in which a starttls() call consults supports_extension('starttls'):
\* it leaves the greeting and either writes STARTTLS or raises SMTPException.
ConsultsStarttls(c) ==
    /\ pc[c] \in {"idle", "starttls_ehlo", "starttls_helo"}
    /\ result'[c].op = "starttls"
    /\ pc'[c] = "starttls" \/ result'[c].exc = "SMTPException"

\* C20 as stated, its last part: after a TLS upgrade, a starttls() call
\* consults supports_extension only once a fresh EHLO response has been
\* received on the new transport.
C20_FreshEhloBeforeConsulting ==
    [][\A c \in AllCallers :
           (transport >= 1 /\ ConsultsStarttls(c)) => last_ehlo_response' # None]_vars

\* C20: no capability learned before encryption survives a TLS upgrade.  The
\* step that reads 220 for STARTTLS empties esmtp_extensions and
\* server_auth_methods and unsets both greeting responses; afterwards the two
\* change only by recording an EHLO response read in that very step, to the
\* parse of its message; a further starttls() call that finds no greeting
\* recorded since the upgrade writes EHLO first; and when supports_extension
\* is consulted after the upgrade, either an EHLO response received since is
\* recorded, or only helo() was (its HELO recorded, no EHLO written) and the
\* call fails as unsupported on the empty mapping.
C20_NoCapabilitySurvivesUpgrade ==
    [][\A c \in AllCallers :
           /\ ResetStep(c)
              => /\ esmtp_extensions' = EmptyDict
                 /\ server_auth_methods' = <<>>
                 /\ last_ehlo_response' = None
                 /\ last_helo_response' = None
           /\ (esmtp_extensions' # esmtp_extensions
               \/ server_auth_methods' # server_auth_methods)
              => \E d \in AllCallers :
                     \/ ResetStep(d)
                     \/ /\ EhloRecordedStep(d)
                        /\ esmtp_extensions'
                               = ParsedEhlo[last_reply'[d].message].esmtp_extensions
                        /\ server_auth_methods'
                               = ParsedEhlo[last_reply'[d].message].auth_types
           /\ (transport >= 1 /\ pc[c] = "idle" /\ result'[c].op = "starttls"
               /\ result'[c].exc # "ValueError" /\ is_ehlo_or_helo_needed(SessionState))
              => (sent'[c] = <<"EHLO">> /\ pc'[c] = "starttls_ehlo")
           /\ (transport >= 1 /\ ConsultsStarttls(c))
              => \/ last_ehlo_response' # None
                 \/ /\ last_helo_response' # None
                    /\ esmtp_extensions' = EmptyDict
                    /\ result'[c].exc = "SMTPException"]_vars

\* C20 witness: after a TLS upgrade a further starttls() call has written a
\* fresh EHLO, read capabilities listing STARTTLS and written STARTTLS.
C20_Witness ==
    /\ transport = 1
    /\ pc[1] = "starttls"
    /\ sent[1] = <<"EHLO", "STARTTLS">>
    /\ last_ehlo_response # None

\* Caller c has written a command (or the DATA body) whose response it has not
\* read yet.
InFlight(c) == pc[c] # "idle"

\* C13: at most one command is in flight per session under any interleaving
\* of concurrent callers: no caller writes a command or a DATA body while
\* another caller's response is outstanding, in particular none between
\* data()'s 354 reply and its final reply, and two concurrent starttls() calls
\* in greeting auto-negotiation do not both write EHLO.
C13_OneCommandInFlight ==
    \A c, d \in AllCallers :
        c # d
        => /\ ~(InFlight(c) /\ InFlight(d))
           /\ ~(pc[c] = "data_body" /\ InFlight(d))
           /\ ~(/\ result[c].op = "starttls" /\ result[c].outcome = "running"
                /\ result[d].op = "starttls" /\ result[d].outcome = "running"
                /\ "EHLO" \in Sent(c)
                /\ "EHLO" \in Sent(d))

\* The capability lines of the message last_ehlo_response was set from.
CapabilityLines == Tail(SplitOn(last_ehlo_response.message, "\n"))

\* The keyword of a line: its longest prefix of letters, digits and hyphens.
KeywordOf(line) ==
    SubSeq(line, 1,
           CHOOSE n \in 0..Len(line) :
               /\ \A i \in 1..n : IsExtChar(Ch(line, i))
               /\ n = Len(line) \/ ~IsExtChar(Ch(line, n + 1)))

\* The result the claim's scenario names: {size: "10240000", starttls: ""}.
SizeStarttls == ("size" :> "10240000") @@ ("starttls" :> "")

\* C15 as stated: parsing "250-example.com\n250-SIZE 10240000\n250 STARTTLS"
\* yields the extensions {size: "10240000", starttls: ""} and no auth methods.
C15_PrefixedScenario ==
    (last_ehlo_response # None
     /\ last_ehlo_response.message = "250-example.com\n250-SIZE 10240000\n250 STARTTLS")
    => (esmtp_extensions = SizeStarttls /\ server_auth_methods = <<>>)

\* C15: parsing the message as the protocol layer delivers it, without status
\* codes, "example.com\nSIZE 10240000\nSTARTTLS", yields {size: "10240000",
\* starttls: ""} and no auth methods; on the status-prefixed message the keys
\* are "250-size" and "250".  In general every key of the returned mapping is
\* lowercase and is the lowercased keyword of one of the capability lines.
C15_KeysAreLowercaseKeywords ==
    last_ehlo_response # None
    => /\ last_ehlo_response.message = "example.com\nSIZE 10240000\nSTARTTLS"
          => (esmtp_extensions = SizeStarttls /\ server_auth_methods = <<>>)
       /\ last_ehlo_response.message = "250-example.com\n250-SIZE 10240000\n250 STARTTLS"
          => /\ esmtp_extensions = ("250-size" :> "10240000") @@ ("250" :> "STARTTLS")
             /\ server_auth_methods = <<>>
       /\ \A k \in DOMAIN esmtp_extensions :
              /\ k = Lower(k)
              /\ \E i \in 1..Len(CapabilityLines) :
                     /\ KeywordOf(CapabilityLines[i]) # ""
                     /\ k = Lower(KeywordOf(CapabilityLines[i]))

\* C15 witness: the unprefixed scenario message has been parsed.
C15_Witness ==
    /\ last_ehlo_response = SMTPResponse(completed, "example.com\nSIZE 10240000\nSTARTTLS")
    /\ DOMAIN esmtp_extensions = {"size", "starttls"}

\* Whether line is an old-style advertisement, 'auth=' in any case at its start.
IsOldstyleAuthLine(line) == Len(line) >= 5 /\ Lower(SubSeq(line, 1, 5)) = "auth="

\* The first whitespace-delimited token of the value after 'auth=', lowercased.
OldstyleFirstToken(line) == Lower(SplitWhitespace(SubSeq(line, 6, Len(line)))[1])

\* C16: both AUTH advertisement forms are recognised: a message with the line
\* 'AUTH=LOGIN' and one with the line 'AUTH LOGIN PLAIN' both yield an auth
\* list containing 'login', the modern form also 'plain'; for an old-style
\* line the list contains the first whitespace-delimited token of the value
\* after 'auth=', lowercased and trimmed.
C16_BothAuthFormsRecognised ==
    last_ehlo_response # None
    => \A i \in 1..Len(CapabilityLines) :
           LET line == CapabilityLines[i]
           IN  /\ line = "AUTH=LOGIN" => InList("login", server_auth_methods)
               /\ line = "AUTH LOGIN PLAIN"
                  => (InList("login", server_auth_methods)
                      /\ InList("plain", server_auth_methods))
               /\ (IsOldstyleAuthLine(line) /\ SplitWhitespace(SubSeq(line, 6, Len(line))) # <<>>)
                  => InList(OldstyleFirstToken(line), server_auth_methods)

\* C17: server_auth_methods never contains a duplicate, whether a mechanism is
\* repeated on one AUTH line, an AUTH line is repeated, or the same mechanism
\* is advertised in old-style and modern form.
C17_NoDuplicateAuthMethods ==
    \A i, j \in 1..Len(server_auth_methods) :
        i # j => server_auth_methods[i] # server_auth_methods[j]

====
